---- MODULE Spec2Model ----
(***************************************************************************)
(* repoman: the create, update (publish), mkchan and setchan commands on a *)
(* GoUpdate repository.  The file system is the state: the repository      *)
(* directory with its index file and version manifest files, and the file  *)
(* storage directory with its blobs.  Every command is one action.         *)
(*                                                                         *)
(* A second specification runs two commands at once, each a process that   *)
(* goes through its file system calls on its own.                          *)
(*                                                                         *)
(* Strings the code slices or concatenates (hashes, paths, storage names,  *)
(* URLs) are sequences of one-character strings.  File contents are        *)
(* sequences of bytes; the JSON files are sequences of tokens.             *)
(***************************************************************************)
EXTENDS Integers, Sequences, FiniteSets, TLC

VARIABLES repoDir, indexFile, manifests, storage, last, ops, procs, naming

vars == <<repoDir, indexFile, manifests, storage, last, ops, procs, naming>>

(***************************************************************************)
(* Bounds of the model.                                                    *)
(***************************************************************************)
\* the number of commands that are run
MaxOps == 3
\* a failing write leaves at most this many tokens or bytes of its data unwritten
MaxShort == 2
\* the storage directory holds at most this many of the names a file may get
MaxTaken == 31

(***************************************************************************)
(* Program constants.                                                      *)
(***************************************************************************)
\* prefixSize := 4
PrefixStart == 4
\* if prefixSize < 32: the length of a hex MD5 sum
HashLen == 32

NoFile == <<[t |-> "nofile"]>>

(***************************************************************************)
(* Strings.                                                                *)
(***************************************************************************)
\* the characters that occur, in byte order
Alphabet == <<"-", "/", "0", "1", "2", "3", "4", "5", "6", "7", "8", "9",
              "a", "b", "c", "d", "e", "f", "u", "x", "y">>

Rank(c) == CHOOSE i \in 1..Len(Alphabet) : Alphabet[i] = c

\* byte-wise string order, the order of a directory walk
RECURSIVE StrLess(_, _)
StrLess(s, t) ==
    IF t = <<>> THEN FALSE
    ELSE IF s = <<>> THEN TRUE
    ELSE IF Head(s) = Head(t) THEN StrLess(Tail(s), Tail(t))
    ELSE Rank(Head(s)) < Rank(Head(t))

\* strings.HasSuffix(s, "/")
HasSuffixSlash(s) == Len(s) > 0 /\ s[Len(s)] = "/"

\* filepath.Base for a relative slash-separated path of a file
RECURSIVE Base(_)
Base(p) ==
    IF \E i \in 1..Len(p) : p[i] = "/"
    THEN Base(Tail(p))
    ELSE p

Digit(d) == Alphabet[d + 3]

\* fmt.Sprintf("%d", n) for n >= 0
RECURSIVE Itoa(_)
Itoa(n) == IF n < 10 THEN <<Digit(n)>> ELSE Itoa(n \div 10) \o <<Digit(n % 10)>>

(***************************************************************************)
(* Files and hashing.                                                      *)
(***************************************************************************)
\* the bytes of file contents
Bytes == 1..3

\* s padded with "0" to the length of a hash
Pad(s) == s \o [i \in 1..(HashLen - Len(s)) |-> "0"]

\* The hex MD5 sum of a content: a fixed injective table in which the sums
\* of the contents that start with byte 1 share their first five characters.
MD5(c) ==
    IF c = <<>> THEN Pad(<<"d", "4", "1", "d">>)
    ELSE LET lead == IF c[1] = 1 THEN "a" ELSE "b"
         IN  Pad(<<lead, lead, lead, lead>> \o [i \in 1..Len(c) |-> Digit(c[i])])

\* the least string of a non-empty set
MinStr(S) == CHOOSE s \in S : \A t \in S : t = s \/ StrLess(s, t)

\* the strings of a set, in byte order
RECURSIVE SortStrs(_)
SortStrs(S) ==
    IF S = {} THEN <<>>
    ELSE LET m == MinStr(S) IN <<m>> \o SortStrs(S \ {m})

\* md5util.RecursiveMD5Calc(dir, {}): the files of a directory with their
\* MD5 sums, in the order of the walk.  dir maps each path to a content.
RecursiveMD5Calc(dir) ==
    LET paths == SortStrs(DOMAIN dir)
    IN  [i \in 1..Len(paths) |-> [Path |-> paths[i], MD5 |-> MD5(dir[paths[i]])]]

EmptyDir == [p \in {} |-> <<>>]

\* one-file directory
File(p, c) == [q \in {p} |-> c]

\* the new-version directories that are published
TreeSameContent == File(<<"x">>, <<1, 2>>) @@ File(<<"y">>, <<1, 2>>)
TreeSameName == File(<<"d", "/", "x">>, <<1, 2>>) @@ File(<<"e", "/", "x">>, <<1, 3>>)
TreeOther == File(<<"x">>, <<1, 3>>) @@ File(<<"y">>, <<2>>)

\* the directory and URL base arguments update is run with
Publishes ==
    {[dir |-> EmptyDir, urlBase |-> <<"u">>],
     [dir |-> TreeSameContent, urlBase |-> <<"u", "/">>],
     [dir |-> TreeSameName, urlBase |-> <<"u">>],
     [dir |-> TreeOther, urlBase |-> <<"u", "/">>]}
VersionIds == {0, 1}
VersionName(id) == <<"1", Digit(id)>>
ChanIds == {"s", "t"}

(***************************************************************************)
(* The JSON files, as token sequences.                                     *)
(***************************************************************************)
LB == [t |-> "{"]
SEP == [t |-> ","]
RB == [t |-> "}"]

\* repo.Channel, repo.VersionSummary as tokens
ChanTok(c) == [t |-> "chan", Id |-> c.Id, Name |-> c.Name, CurrentVersion |-> c.CurrentVersion]
VerTok(v) == [t |-> "ver", Id |-> v.Id, Name |-> v.Name]

\* repo.NewBlankIndex()
NewBlankIndex == [Channels |-> <<>>, Versions |-> <<>>]

\* json.Marshal(indexData)
MarshalIndex(idx) ==
    <<LB>> \o [i \in 1..Len(idx.Channels) |-> ChanTok(idx.Channels[i])]
           \o <<SEP>>
           \o [i \in 1..Len(idx.Versions) |-> VerTok(idx.Versions[i])]
           \o <<RB>>

\* the position of the separator of an index file, 0 if there is none
SepPos(f) ==
    IF \E k \in 1..Len(f) : f[k].t = ","
    THEN CHOOSE k \in 1..Len(f) : f[k].t = "," /\ \A j \in 1..(k - 1) : f[j].t # ","
    ELSE 0

\* json.Unmarshal(fileData, &indexData) returns no error
IndexParses(f) ==
    /\ Len(f) >= 3
    /\ f[1] = LB
    /\ f[Len(f)] = RB
    /\ SepPos(f) > 1
    /\ \A j \in 2..(SepPos(f) - 1) : f[j].t = "chan"
    /\ \A j \in (SepPos(f) + 1)..(Len(f) - 1) : f[j].t = "ver"

\* the index json.Unmarshal yields
UnmarshalIndex(f) ==
    LET k == SepPos(f)
    IN  [Channels |-> [i \in 1..(k - 2) |->
                         [Id |-> f[i + 1].Id, Name |-> f[i + 1].Name,
                          CurrentVersion |-> f[i + 1].CurrentVersion]],
         Versions |-> [i \in 1..(Len(f) - 1 - k) |->
                         [Id |-> f[k + i].Id, Name |-> f[k + i].Name]]]

\* repo.FileInfo as a token
FileTok(fi) == [t |-> "file", Path |-> fi.Path, Sources |-> fi.Sources, MD5 |-> fi.MD5]

\* json.Marshal(versionData)
MarshalVersion(v) ==
    <<[t |-> "version", Id |-> v.Id, Name |-> v.Name]>>
        \o [i \in 1..Len(v.Files) |-> FileTok(v.Files[i])]
        \o <<RB>>

\* file.Write(data) on a file opened without O_TRUNC whose content is old,
\* stopping short tokens before the end of data (short = 0: a full write)
WriteAt0(old, data, short) ==
    LET n == Len(data) - short
    IN  SubSeq(data, 1, n) \o SubSeq(old, n + 1, Len(old))

\* file.Write(data) on a new file or one opened with O_TRUNC
WriteNew(data, short) == SubSeq(data, 1, Len(data) - short)

(***************************************************************************)
(* Faults of the environment: at most one per command.  at is the index    *)
(* of the file of the add-to-storage list it hits, short the number of     *)
(* tokens or bytes a failing write leaves unwritten.  nv_missing: the new  *)
(* version directory does not exist.  manifest_write: the write of the     *)
(* version file fails and writes nothing.                                  *)
(***************************************************************************)
NoFault == [kind |-> "none", at |-> 0, short |-> 0]

UpdateFaults(dir) ==
    {NoFault}
    \cup {[kind |-> k, at |-> 0, short |-> 0] :
            k \in {"repo_perm", "files_missing", "files_perm", "index_perm",
                   "nv_missing", "hash_nv", "hash_fs", "manifest_perm",
                   "manifest_write", "index_open"}}
    \cup {[kind |-> k, at |-> a, short |-> 0] :
            k \in {"create_perm", "read_src"}, a \in 1..Cardinality(DOMAIN dir)}
    \cup {[kind |-> "copy", at |-> a, short |-> n] : a \in 1..Cardinality(DOMAIN dir), n \in 1..MaxShort}
    \cup {[kind |-> "index_write", at |-> 0, short |-> n] : n \in 1..MaxShort}

ChanFaults ==
    {NoFault}
    \cup {[kind |-> k, at |-> 0, short |-> 0] : k \in {"repo_perm", "index_perm", "index_open"}}
    \cup {[kind |-> "index_write", at |-> 0, short |-> n] : n \in 1..MaxShort}

Min(a, b) == IF a < b THEN a ELSE b

(***************************************************************************)
(* update: UpdateRepo.                                                     *)
(***************************************************************************)
\* NormalizeUrlBase without the HasSuffix test
NormalizeUrlBaseAlways(urlBase) == urlBase \o <<"/">>

\* if !strings.HasSuffix(urlBase, "/") { urlBase += "/" }
NormalizeUrlBase(urlBase) ==
    IF ~HasSuffixSlash(urlBase) THEN urlBase \o <<"/">> ELSE urlBase

\* fmt.Sprintf("%s-%s", prefix, base) and fmt.Sprintf("%s-%d-%s", prefix, num, base)
FormatName(md5, prefixSize, prefixNum, base) ==
    IF prefixNum < 0
    THEN SubSeq(md5, 1, prefixSize) \o <<"-">> \o base
    ELSE SubSeq(md5, 1, prefixSize) \o <<"-">> \o Itoa(prefixNum) \o <<"-">> \o base

\* the loop over os.Stat(path.Join(filesDir, storageName)): the first name
\* that does not exist in the storage directory st
RECURSIVE Probe(_, _, _, _, _)
Probe(md5, base, prefixSize, prefixNum, st) ==
    IF FormatName(md5, prefixSize, prefixNum, base) \notin DOMAIN st
    THEN FormatName(md5, prefixSize, prefixNum, base)
    ELSE IF prefixSize < HashLen
         THEN Probe(md5, base, prefixSize + 1, prefixNum, st)
         ELSE Probe(md5, base, prefixSize, prefixNum + 1, st)

\* the storage name of a file that is not in storage yet
StorageName(nvMD5Data, st) ==
    Probe(nvMD5Data.MD5, Base(nvMD5Data.Path), PrefixStart, -1, st)

\* the HACK: an empty file storage list gets one dummy entry
WithDummy(fsMD5s) ==
    IF Len(fsMD5s) <= 0 THEN <<[Path |-> <<>>, MD5 |-> <<>>]>> ELSE fsMD5s

\* MatchLoop with the two branches of the if swapped: the last entry of the
\* file storage list is never compared
RECURSIVE MatchLoopLastFirst(_, _, _, _)
MatchLoopLastFirst(nvMD5Data, fsMD5s, i, st) ==
    IF i > Len(fsMD5s) THEN [list |-> "none"]
    ELSE IF i = Len(fsMD5s)
         THEN [list |-> "add", FileStoragePath |-> StorageName(nvMD5Data, st),
               InstallPath |-> nvMD5Data.Path, MD5 |-> nvMD5Data.MD5]
         ELSE IF nvMD5Data.MD5 = fsMD5s[i].MD5
              THEN [list |-> "map", FileStoragePath |-> fsMD5s[i].Path,
                    InstallPath |-> nvMD5Data.Path, MD5 |-> fsMD5s[i].MD5]
              ELSE MatchLoopLastFirst(nvMD5Data, fsMD5s, i + 1, st)

\* the inner loop over fileStorageMD5s for one file of the new version:
\* what it appends, and to which of the two lists
RECURSIVE MatchLoop(_, _, _, _)
MatchLoop(nvMD5Data, fsMD5s, i, st) ==
    IF i > Len(fsMD5s) THEN [list |-> "none"]
    ELSE IF nvMD5Data.MD5 = fsMD5s[i].MD5
         THEN [list |-> "map", FileStoragePath |-> fsMD5s[i].Path,
               InstallPath |-> nvMD5Data.Path, MD5 |-> fsMD5s[i].MD5]
         ELSE IF i = Len(fsMD5s)
              THEN [list |-> "add", FileStoragePath |-> StorageName(nvMD5Data, st),
                    InstallPath |-> nvMD5Data.Path, MD5 |-> nvMD5Data.MD5]
              ELSE MatchLoop(nvMD5Data, fsMD5s, i + 1, st)

Entry(m) == [FileStoragePath |-> m.FileStoragePath, InstallPath |-> m.InstallPath, MD5 |-> m.MD5]

\* the outer loop over newVersionMD5s: fileStorageMap and addToStorage
RECURSIVE DiffLoop(_, _, _, _, _, _)
DiffLoop(nvMD5s, fsMD5s, n, st, fileStorageMap, addToStorage) ==
    IF n > Len(nvMD5s)
    THEN [fileStorageMap |-> fileStorageMap, addToStorage |-> addToStorage]
    ELSE LET m == MatchLoop(nvMD5s[n], fsMD5s, 1, st)
         IN  DiffLoop(nvMD5s, fsMD5s, n + 1, st,
                      IF m.list = "map" THEN Append(fileStorageMap, Entry(m)) ELSE fileStorageMap,
                      IF m.list = "add" THEN Append(addToStorage, Entry(m)) ELSE addToStorage)

\* CopyLoop with the files opened without O_EXCL: an existing file is written over
RECURSIVE CopyLoopNoExcl(_, _, _, _, _, _)
CopyLoopNoExcl(addToStorage, j, st, fileStorageMap, dir, fault) ==
    IF j > Len(addToStorage)
    THEN [code |-> 0, step |-> "done", storage |-> st, fileStorageMap |-> fileStorageMap]
    ELSE LET mapping == addToStorage[j]
             name == mapping.FileStoragePath
         IN  IF fault.kind = "create_perm" /\ fault.at = j
             THEN [code |-> 42, step |-> "create_blob", storage |-> st,
                   fileStorageMap |-> fileStorageMap]
             ELSE IF fault.kind = "read_src" /\ fault.at = j
             THEN [code |-> 43, step |-> "read_src", storage |-> File(name, <<>>) @@ st,
                   fileStorageMap |-> fileStorageMap]
             ELSE LET src == dir[mapping.InstallPath]
                      short == IF fault.kind = "copy" /\ fault.at = j
                               THEN Min(fault.short, Len(src)) ELSE 0
                  IN  CopyLoopNoExcl(addToStorage, j + 1,
                                     File(name, SubSeq(src, 1, Len(src) - short)) @@ st,
                                     Append(fileStorageMap, mapping), dir, fault)

\* the loop over addToStorage: create each file exclusively in the storage
\* directory, open the source file, copy, append to fileStorageMap
RECURSIVE CopyLoop(_, _, _, _, _, _)
CopyLoop(addToStorage, j, st, fileStorageMap, dir, fault) ==
    IF j > Len(addToStorage)
    THEN [code |-> 0, step |-> "done", storage |-> st, fileStorageMap |-> fileStorageMap]
    ELSE LET mapping == addToStorage[j]
             name == mapping.FileStoragePath
         IN  IF name \in DOMAIN st \/ (fault.kind = "create_perm" /\ fault.at = j)
             THEN [code |-> 42, step |-> "create_blob", storage |-> st,
                   fileStorageMap |-> fileStorageMap]
             ELSE IF fault.kind = "read_src" /\ fault.at = j
             THEN [code |-> 43, step |-> "read_src", storage |-> File(name, <<>>) @@ st,
                   fileStorageMap |-> fileStorageMap]
             ELSE LET src == dir[mapping.InstallPath]
                      short == IF fault.kind = "copy" /\ fault.at = j
                               THEN Min(fault.short, Len(src)) ELSE 0
                  IN  CopyLoop(addToStorage, j + 1,
                               File(name, SubSeq(src, 1, Len(src) - short)) @@ st,
                               Append(fileStorageMap, mapping), dir, fault)

\* repo.NewVersion and the loop that builds the file list
BuildVersion(versionId, versionName, fileStorageMap, urlBase) ==
    [Id |-> versionId, Name |-> versionName,
     Files |-> [i \in 1..Len(fileStorageMap) |->
                  [Path |-> fileStorageMap[i].InstallPath,
                   Sources |-> <<[SourceType |-> "http",
                                  Url |-> urlBase \o fileStorageMap[i].FileStoragePath]>>,
                   MD5 |-> fileStorageMap[i].MD5]]]

\* WriteVersionFile with the file opened without O_EXCL
WriteVersionFileNoExcl(mf, versionId, versionData, fault) ==
    IF fault.kind = "manifest_perm" THEN [code |-> 45, manifests |-> mf]
    ELSE LET jsonData == MarshalVersion(versionData)
             short == IF fault.kind = "manifest_write" THEN Len(jsonData) ELSE 0
         IN  [code |-> 0, manifests |-> (versionId :> WriteNew(jsonData, short)) @@ mf]

\* os.OpenFile("%d.json", O_CREATE|O_EXCL|O_WRONLY) and verFile.Write(jsonData),
\* whose result is not looked at: mf is the set of manifest files of the
\* repository directory
WriteVersionFile(mf, versionId, versionData, fault) ==
    IF versionId \in DOMAIN mf THEN [code |-> 44, manifests |-> mf]
    ELSE IF fault.kind = "manifest_perm" THEN [code |-> 45, manifests |-> mf]
    ELSE LET jsonData == MarshalVersion(versionData)
             short == IF fault.kind = "manifest_write" THEN Len(jsonData) ELSE 0
         IN  [code |-> 0, manifests |-> (versionId :> WriteNew(jsonData, short)) @@ mf]

\* os.OpenFile(indexFilePath, os.O_RDWR) and indexFile.Write(jsonData)
WriteIndexFile(idxFile, indexData, fault) ==
    IF fault.kind = "index_open" THEN [code |-> 45, indexFile |-> idxFile, cut |-> FALSE]
    ELSE LET jsonData == MarshalIndex(indexData)
             short == IF fault.kind = "index_write"
                      THEN Min(fault.short, Len(jsonData)) ELSE 0
         IN  [code |-> 0, indexFile |-> WriteAt0(idxFile, jsonData, short),
              cut |-> short > 0]

\* PersistVersion with the index file written before the version file
PersistVersionIndexFirst(mf, idxFile, indexData, versionData, fault) ==
    LET x == WriteIndexFile(idxFile, indexData, fault)
    IN  IF x.code # 0
        THEN [code |-> x.code, step |-> "open_index", manifests |-> mf, indexFile |-> idxFile,
              cut |-> FALSE]
        ELSE LET w == WriteVersionFile(mf, versionData.Id, versionData, fault)
             IN  [code |-> w.code, step |-> IF w.code # 0 THEN "create_manifest" ELSE "done",
                  manifests |-> w.manifests, indexFile |-> x.indexFile, cut |-> x.cut]

\* PersistVersion without the return after a failed creation of the version file
PersistVersionNoReturn(mf, idxFile, indexData, versionData, fault) ==
    LET w == WriteVersionFile(mf, versionData.Id, versionData, fault)
        x == WriteIndexFile(idxFile, indexData, fault)
    IN  [code |-> x.code, step |-> IF x.code # 0 THEN "open_index" ELSE "done",
         manifests |-> w.manifests, indexFile |-> x.indexFile, cut |-> x.cut]

\* the end of UpdateRepo: write the version file, then the index file
PersistVersion(mf, idxFile, indexData, versionData, fault) ==
    LET w == WriteVersionFile(mf, versionData.Id, versionData, fault)
    IN  IF w.code # 0
        THEN [code |-> w.code, step |-> "create_manifest",
              manifests |-> mf, indexFile |-> idxFile, cut |-> FALSE]
        ELSE LET x == WriteIndexFile(idxFile, indexData, fault)
             IN  [code |-> x.code, step |-> IF x.code # 0 THEN "open_index" ELSE "done",
                  manifests |-> w.manifests, indexFile |-> x.indexFile, cut |-> x.cut]

\* what UpdateRepo returns and leaves on disk when it stops at step with code;
\* saved is the index it handed to indexFile.Write, cut says that this write
\* stopped short, nvMissing that the new version directory did not exist
UpdateResult(code, step, st, mf, idxFile, nvMD5s, fsMD5s, fileStorageMap, addToStorage) ==
    [code |-> code, step |-> step, storage |-> st, manifests |-> mf, indexFile |-> idxFile,
     nvMD5s |-> nvMD5s, fsMD5s |-> fsMD5s,
     fileStorageMap |-> fileStorageMap, addToStorage |-> addToStorage, saved |-> <<>>,
     cut |-> FALSE, nvMissing |-> FALSE]

UpdateStops(code, step) ==
    UpdateResult(code, step, storage, manifests, indexFile, <<>>, <<>>, <<>>, <<>>)

\* UpdateRepo(repoDir, filesDir, urlBase, newVersionDir, versionName, versionId):
\* dir is the content of newVersionDir, the storage directory is filesDir
UpdateRepo(urlBase, dir, versionName, versionId, fault) ==
    IF ~repoDir THEN UpdateStops(10, "stat_repo")
    ELSE IF fault.kind = "repo_perm" THEN UpdateStops(20, "stat_repo")
    ELSE IF fault.kind = "files_missing" THEN UpdateStops(11, "stat_files")
    ELSE IF fault.kind = "files_perm" THEN UpdateStops(21, "stat_files")
    ELSE IF indexFile = NoFile THEN UpdateStops(13, "read_index")
    ELSE IF fault.kind = "index_perm" THEN UpdateStops(23, "read_index")
    ELSE IF ~IndexParses(indexFile) THEN UpdateStops(12, "parse_index")
    ELSE IF fault.kind = "nv_missing"
    THEN [UpdateStops(30, "hash_nv") EXCEPT !.nvMissing = TRUE]
    ELSE IF fault.kind = "hash_nv" THEN UpdateStops(30, "hash_nv")
    ELSE IF fault.kind = "hash_fs" THEN UpdateStops(31, "hash_fs")
    ELSE
    LET indexData == UnmarshalIndex(indexFile)
        newVersionMD5s == RecursiveMD5Calc(dir)
        fileStorageMD5s == RecursiveMD5Calc(storage)
        diff == DiffLoop(newVersionMD5s, WithDummy(fileStorageMD5s), 1, storage, <<>>, <<>>)
        copied == CopyLoop(diff.addToStorage, 1, storage, diff.fileStorageMap, dir, fault)
    IN  IF copied.code # 0
        THEN UpdateResult(copied.code, copied.step, copied.storage, manifests, indexFile,
                          newVersionMD5s, fileStorageMD5s,
                          copied.fileStorageMap, diff.addToStorage)
        ELSE
        LET versionData == BuildVersion(versionId, versionName, copied.fileStorageMap,
                                        NormalizeUrlBase(urlBase))
            newIndex == [indexData EXCEPT !.Versions =
                            Append(@, [Id |-> versionId, Name |-> versionName])]
            p == PersistVersion(manifests, indexFile, newIndex, versionData, fault)
        IN  [UpdateResult(p.code, p.step, copied.storage, p.manifests, p.indexFile,
                          newVersionMD5s, fileStorageMD5s,
                          copied.fileStorageMap, diff.addToStorage)
                EXCEPT !.saved = IF p.step = "done" THEN <<newIndex>> ELSE <<>>,
                       !.cut = p.cut]

(***************************************************************************)
(* mkchan: CreateChan.  setchan: SetChan.  create: CreateRepo.             *)
(***************************************************************************)
\* saved is the index handed to indexFile.Write, if the command got that far;
\* cut says that this write stopped short
ChanResult(code, step, idxFile, saved) ==
    [code |-> code, step |-> step, indexFile |-> idxFile, saved |-> saved, cut |-> FALSE]

\* the index of the first channel of chans with the given ID, 0 if none
ChanIndex(chans, chanId) ==
    IF \E i \in 1..Len(chans) : chans[i].Id = chanId
    THEN CHOOSE i \in 1..Len(chans) :
            chans[i].Id = chanId /\ \A j \in 1..(i - 1) : chans[j].Id # chanId
    ELSE 0

\* the steps CreateChan and SetChan share: stat the repository directory,
\* read the index file; the code they return with, 0 to go on
LoadIndexCode(fault) ==
    IF ~repoDir THEN 10
    ELSE IF fault.kind = "repo_perm" THEN 20
    ELSE IF indexFile = NoFile THEN 13
    ELSE IF fault.kind = "index_perm" THEN 23
    ELSE IF ~IndexParses(indexFile) THEN 12
    ELSE 0

LoadIndexStep(code) ==
    IF code \in {10, 20} THEN "stat_repo"
    ELSE IF code \in {13, 23} THEN "read_index" ELSE "parse_index"

\* repo.Channel{Id: chanId, Name: chanId}: CurrentVersion is the zero value
NewChannel(chanId) == [Id |-> chanId, Name |-> chanId, CurrentVersion |-> 0]

\* CreateChan(repoDir, chanId)
CreateChan(chanId, fault) ==
    IF LoadIndexCode(fault) # 0
    THEN ChanResult(LoadIndexCode(fault), LoadIndexStep(LoadIndexCode(fault)), indexFile, <<>>)
    ELSE
    LET indexData == UnmarshalIndex(indexFile)
    IN  IF ChanIndex(indexData.Channels, chanId) # 0
        THEN ChanResult(42, "chan_exists", indexFile, <<>>)
        ELSE LET channel == NewChannel(chanId)
                 newIndex == [indexData EXCEPT !.Channels = Append(@, channel)]
                 x == WriteIndexFile(indexFile, newIndex, fault)
             IN  [ChanResult(x.code, IF x.code # 0 THEN "open_index" ELSE "done", x.indexFile,
                             IF x.code # 0 THEN <<>> ELSE <<newIndex>>)
                   EXCEPT !.cut = x.cut]

\* SetChannels without the loop that looks for the channel
SetChannelsAppend(chans, chanId, versionId) ==
    Append(chans, [Id |-> chanId, Name |-> chanId, CurrentVersion |-> versionId])

\* the channel list SetChan writes
SetChannels(chans, chanId, versionId) ==
    LET i == ChanIndex(chans, chanId)
    IN  IF i # 0
        THEN IF versionId < 0
             THEN SubSeq(chans, 1, i - 1) \o SubSeq(chans, i + 1, Len(chans))
             ELSE [chans EXCEPT ![i].CurrentVersion = versionId]
        ELSE Append(chans, [Id |-> chanId, Name |-> chanId, CurrentVersion |-> versionId])

\* SetChan with the index file opened without O_TRUNC, as update and mkchan do
SetChanNoTrunc(chanId, versionId, fault) ==
    IF LoadIndexCode(fault) # 0
    THEN ChanResult(LoadIndexCode(fault), LoadIndexStep(LoadIndexCode(fault)), indexFile, <<>>)
    ELSE
    LET indexData == UnmarshalIndex(indexFile)
        newIndex == [indexData EXCEPT !.Channels = SetChannels(@, chanId, versionId)]
        jsonData == MarshalIndex(newIndex)
    IN  IF fault.kind = "index_open" THEN ChanResult(45, "open_index", indexFile, <<>>)
        ELSE [ChanResult(0, "done",
                         WriteAt0(indexFile, jsonData, IF fault.kind = "index_write"
                                                       THEN Min(fault.short, Len(jsonData)) ELSE 0),
                         <<newIndex>>)
                EXCEPT !.cut = (fault.kind = "index_write")]

\* SetChan(repoDir, chanId, versionId); the index file is opened with O_TRUNC
SetChan(chanId, versionId, fault) ==
    IF LoadIndexCode(fault) # 0
    THEN ChanResult(LoadIndexCode(fault), LoadIndexStep(LoadIndexCode(fault)), indexFile, <<>>)
    ELSE
    LET indexData == UnmarshalIndex(indexFile)
        newIndex == [indexData EXCEPT !.Channels = SetChannels(@, chanId, versionId)]
        jsonData == MarshalIndex(newIndex)
    IN  IF fault.kind = "index_open" THEN ChanResult(45, "open_index", indexFile, <<>>)
        ELSE [ChanResult(0, "done",
                         WriteNew(jsonData, IF fault.kind = "index_write"
                                            THEN Min(fault.short, Len(jsonData)) ELSE 0),
                         <<newIndex>>)
                EXCEPT !.cut = (fault.kind = "index_write")]

CreateFaults ==
    {NoFault}
    \cup {[kind |-> k, at |-> 0, short |-> 0] : k \in {"mkdir_parent", "mkdir", "index_open"}}
    \cup {[kind |-> "index_write", at |-> 0, short |-> n] : n \in 1..MaxShort}

\* CreateRepo(repoDir): os.Mkdir, then ioutil.WriteFile of the blank index
CreateRepo(fault) ==
    IF repoDir THEN [code |-> 11, step |-> "mkdir", repoDir |-> repoDir, indexFile |-> indexFile]
    ELSE IF fault.kind = "mkdir_parent"
    THEN [code |-> 12, step |-> "mkdir", repoDir |-> repoDir, indexFile |-> indexFile]
    ELSE IF fault.kind = "mkdir"
    THEN [code |-> 10, step |-> "mkdir", repoDir |-> repoDir, indexFile |-> indexFile]
    ELSE LET jsonData == MarshalIndex(NewBlankIndex)
         IN  IF fault.kind = "index_open"
             THEN [code |-> 20, step |-> "write_index", repoDir |-> TRUE, indexFile |-> NoFile]
             ELSE IF fault.kind = "index_write"
             THEN [code |-> 20, step |-> "write_index", repoDir |-> TRUE,
                   indexFile |-> WriteNew(jsonData, Min(fault.short, Len(jsonData)))]
             ELSE [code |-> 0, step |-> "done", repoDir |-> TRUE,
                   indexFile |-> WriteNew(jsonData, 0)]

(***************************************************************************)
(* The state machine: the commands run one after the other.  last is the   *)
(* command that ran last, with its arguments, its exit code, the step it   *)
(* stopped at, the files as they were before it ran and, once UpdateRepo   *)
(* has hashed the two directories, its arguments and the lists it computed.*)
(***************************************************************************)
NoManifests == [i \in {} |-> <<>>]

\* the steps of UpdateRepo that come before it looks at its other arguments
EarlySteps == {"stat_repo", "stat_files", "read_index", "parse_index", "hash_nv", "hash_fs"}

Ran(op, code, step, chanId, versionId, urlBase, dir, r) ==
    [op |-> op, code |-> code, step |-> step, chanId |-> chanId, versionId |-> versionId,
     urlBase |-> urlBase, dir |-> dir,
     indexBefore |-> indexFile, manifestsBefore |-> manifests, storageBefore |-> storage,
     nvMD5s |-> r.nvMD5s, fsMD5s |-> r.fsMD5s,
     fileStorageMap |-> r.fileStorageMap, addToStorage |-> r.addToStorage,
     saved |-> r.saved, cut |-> r.cut, nvMissing |-> r.nvMissing]

NoLists == [nvMD5s |-> <<>>, fsMD5s |-> <<>>, fileStorageMap |-> <<>>, addToStorage |-> <<>>,
            saved |-> <<>>, cut |-> FALSE, nvMissing |-> FALSE]

\* the commands that are run at once, and a command that has not begun
Procs == {1, 2}
NotStarted ==
    [pc |-> "start", op |-> "none", chanId |-> "", versionId |-> -1, urlBase |-> <<>>,
     dir |-> EmptyDir, code |-> 0, read |-> <<>>, indexData |-> <<>>,
     fileStorageMap |-> <<>>, addToStorage |-> <<>>]

\* no file is being named
NoNaming ==
    [pc |-> "none", nvMD5Data |-> [Path |-> <<>>, MD5 |-> <<>>], storageNameBase |-> <<>>,
     prefixSize |-> 0, prefixNum |-> 0, storageName |-> <<>>, stats |-> 0,
     statFails |-> FALSE, err |-> "nil"]

Init ==
    /\ repoDir = FALSE
    /\ indexFile = NoFile
    /\ manifests = NoManifests
    /\ storage = EmptyDir
    /\ ops = 0
    /\ last = Ran("none", 0, "done", "", -1, <<>>, EmptyDir, NoLists)
    /\ procs = [p \in Procs |-> NotStarted]
    /\ naming = NoNaming

Create ==
    \E fault \in CreateFaults :
        \E r \in {CreateRepo(fault)} :
            /\ repoDir' = r.repoDir
            /\ indexFile' = r.indexFile
            /\ last' = Ran("create", r.code, r.step, "", -1, <<>>, EmptyDir, NoLists)
            /\ UNCHANGED <<manifests, storage>>

Update ==
    \E publish \in Publishes, versionId \in VersionIds :
        \E fault \in UpdateFaults(publish.dir) :
            \E r \in {UpdateRepo(publish.urlBase, publish.dir, VersionName(versionId),
                                 versionId, fault)} :
                /\ storage' = r.storage
                /\ manifests' = r.manifests
                /\ indexFile' = r.indexFile
                /\ last' = IF r.step \in EarlySteps
                           THEN Ran("update", r.code, r.step, "", versionId, <<>>, EmptyDir, r)
                           ELSE Ran("update", r.code, r.step, "", versionId,
                                    publish.urlBase, publish.dir, r)
                /\ UNCHANGED repoDir

MkChan ==
    \E chanId \in ChanIds, fault \in ChanFaults :
        \E r \in {CreateChan(chanId, fault)} :
            /\ indexFile' = r.indexFile
            /\ last' = Ran("mkchan", r.code, r.step, chanId, -1, <<>>, EmptyDir,
                           [NoLists EXCEPT !.saved = r.saved, !.cut = r.cut])
            /\ UNCHANGED <<repoDir, manifests, storage>>

SetChanCmd ==
    \E chanId \in ChanIds, versionId \in {-1} \cup VersionIds, fault \in ChanFaults :
        \E r \in {SetChan(chanId, versionId, fault)} :
            /\ indexFile' = r.indexFile
            /\ last' = Ran("setchan", r.code, r.step, chanId, versionId, <<>>, EmptyDir,
                           [NoLists EXCEPT !.saved = r.saved, !.cut = r.cut])
            /\ UNCHANGED <<repoDir, manifests, storage>>

\* the commands are counted, and at most MaxOps are run
Step(Cmd) == ops < MaxOps /\ ops' = ops + 1 /\ Cmd /\ UNCHANGED <<procs, naming>>

Next == Step(Create) \/ Step(Update) \/ Step(MkChan) \/ Step(SetChanCmd)

Spec == Init /\ [][Next]_vars

(***************************************************************************)
(* The commands run one after the other with every write of the index      *)
(* file succeeding: no write stops short, and ioutil.WriteFile of create   *)
(* does not fail.  The other faults of the environment stay.               *)
(***************************************************************************)
WritesSucceed(l) == ~l.cut /\ l.step # "write_index"

Sound(Cmd) == Step(Cmd) /\ WritesSucceed(last')

NextSound == Sound(Create) \/ Sound(Update) \/ Sound(MkChan) \/ Sound(SetChanCmd)

SpecSound == Init /\ [][NextSound]_vars

(***************************************************************************)
(* Two commands at once.  Each process is one run of update, mkchan or     *)
(* setchan on a repository that exists; procs[p] holds its arguments, the  *)
(* place it is at (pc), the index file as it read it and the index it has  *)
(* in memory.  A step is what the command does from one access of the      *)
(* shared files to the next: read the index file; hash the two             *)
(* directories; copy the new files and create the version file; open the   *)
(* index file; write it.  No call fails for a reason of the environment.   *)
(* last is the command whose write of the index file ran last.             *)
(***************************************************************************)
\* the index files the two commands may find: that of a new repository, and
\* that of one in which mkchan s was run
StartIndexes ==
    {MarshalIndex(NewBlankIndex),
     MarshalIndex([NewBlankIndex EXCEPT !.Channels = <<NewChannel("s")>>])}

InitConc ==
    /\ repoDir = TRUE
    /\ indexFile \in StartIndexes
    /\ manifests = NoManifests
    /\ storage = EmptyDir
    /\ ops = 0
    /\ last = Ran("none", 0, "done", "", -1, <<>>, EmptyDir, NoLists)
    /\ procs = [p \in Procs |-> NotStarted]
    /\ naming = NoNaming

\* process p returns with an exit code
Returns(pr, code) == [pr EXCEPT !.pc = "done", !.code = code]

\* os.Stat(repoDir), ioutil.ReadFile(indexFilePath), json.Unmarshal: the
\* process goes on at pc with changed, the index it read with its change made
ReadIndex(p, pr, pc, changed) ==
    /\ procs[p].pc = "start"
    /\ procs' = [procs EXCEPT ![p] =
                    IF LoadIndexCode(NoFault) # 0
                    THEN Returns(pr, LoadIndexCode(NoFault))
                    ELSE [pr EXCEPT !.pc = pc, !.read = indexFile,
                                    !.indexData = <<changed>>]]
    /\ UNCHANGED <<repoDir, indexFile, manifests, storage, last, ops, naming>>

\* update: up to the parse of the index file
BeginUpdate(p) ==
    \E publish \in Publishes, versionId \in VersionIds :
        ReadIndex(p, [NotStarted EXCEPT !.op = "update", !.versionId = versionId,
                                        !.urlBase = publish.urlBase, !.dir = publish.dir],
                  "hash", UnmarshalIndex(indexFile))

\* update: hash the new version directory and the storage directory, and
\* compare
HashAndDiff(p) ==
    /\ procs[p].pc = "hash"
    /\ \E diff \in {DiffLoop(RecursiveMD5Calc(procs[p].dir),
                             WithDummy(RecursiveMD5Calc(storage)), 1, storage, <<>>, <<>>)} :
          procs' = [procs EXCEPT ![p].pc = "copy",
                                 ![p].fileStorageMap = diff.fileStorageMap,
                                 ![p].addToStorage = diff.addToStorage]
    /\ UNCHANGED <<repoDir, indexFile, manifests, storage, last, ops, naming>>

\* update: copy the new files to the storage directory, build the version,
\* append its summary to the index in memory and create the version file
CopyAndWriteVersion(p) ==
    /\ procs[p].pc = "copy"
    /\ \E copied \in {CopyLoop(procs[p].addToStorage, 1, storage, procs[p].fileStorageMap,
                               procs[p].dir, NoFault)} :
          /\ storage' = copied.storage
          /\ IF copied.code # 0
             THEN /\ procs' = [procs EXCEPT ![p] = Returns(@, copied.code)]
                  /\ UNCHANGED manifests
             ELSE \E w \in {WriteVersionFile(manifests, procs[p].versionId,
                                BuildVersion(procs[p].versionId, VersionName(procs[p].versionId),
                                             copied.fileStorageMap,
                                             NormalizeUrlBase(procs[p].urlBase)),
                                NoFault)} :
                     /\ manifests' = w.manifests
                     /\ procs' = [procs EXCEPT ![p] =
                                     IF w.code # 0 THEN Returns(@, w.code)
                                     ELSE [@ EXCEPT !.pc = "open",
                                                    !.fileStorageMap = copied.fileStorageMap,
                                                    !.indexData[1].Versions =
                                                        Append(@, [Id |-> procs[p].versionId,
                                                                   Name |-> VersionName(procs[p].versionId)])]]
    /\ UNCHANGED <<repoDir, indexFile, last, ops, naming>>

\* mkchan: up to the append of the channel, or the return with 42
BeginMkChan(p) ==
    \E chanId \in ChanIds :
        IF LoadIndexCode(NoFault) = 0 /\ ChanIndex(UnmarshalIndex(indexFile).Channels, chanId) # 0
        THEN /\ procs[p].pc = "start"
             /\ procs' = [procs EXCEPT ![p] =
                             Returns([NotStarted EXCEPT !.op = "mkchan", !.chanId = chanId,
                                                        !.read = indexFile], 42)]
             /\ UNCHANGED <<repoDir, indexFile, manifests, storage, last, ops, naming>>
        ELSE ReadIndex(p, [NotStarted EXCEPT !.op = "mkchan", !.chanId = chanId], "open",
                       [UnmarshalIndex(indexFile) EXCEPT
                            !.Channels = Append(@, NewChannel(chanId))])

\* setchan: up to the change of the channel list
BeginSetChan(p) ==
    \E chanId \in ChanIds, versionId \in {-1} \cup VersionIds :
        ReadIndex(p, [NotStarted EXCEPT !.op = "setchan", !.chanId = chanId,
                                        !.versionId = versionId], "open",
                  [UnmarshalIndex(indexFile) EXCEPT
                       !.Channels = SetChannels(@, chanId, versionId)])

\* os.OpenFile(indexFilePath, ...): setchan opens with O_TRUNC, which
\* empties the file; update and mkchan open with O_RDWR alone
OpenIndexFile(p) ==
    /\ procs[p].pc = "open"
    /\ procs' = [procs EXCEPT ![p].pc = "write"]
    /\ indexFile' = IF procs[p].op = "setchan" THEN <<>> ELSE indexFile
    /\ UNCHANGED <<repoDir, manifests, storage, last, ops, naming>>

\* the write step of a command that reads the index file again and applies
\* its change to what it finds: a save that merges
WriteIndexMerged(p) ==
    /\ procs[p].pc = "write"
    /\ procs[p].op = "update" /\ IndexParses(indexFile)
    /\ \E idx \in {[UnmarshalIndex(indexFile) EXCEPT !.Versions =
                        Append(@, [Id |-> procs[p].versionId,
                                   Name |-> VersionName(procs[p].versionId)])]} :
          /\ indexFile' = WriteAt0(indexFile, MarshalIndex(idx), 0)
          /\ last' = Ran(procs[p].op, 0, "done", procs[p].chanId, procs[p].versionId,
                         procs[p].urlBase, procs[p].dir, [NoLists EXCEPT !.saved = <<idx>>])
    /\ procs' = [procs EXCEPT ![p] = Returns(@, 0)]
    /\ UNCHANGED <<repoDir, manifests, storage, ops, naming>>

\* jsonData, _ := json.Marshal(indexData); indexFile.Write(jsonData): the
\* data goes to the start of the file as it is by now; return nil
WriteIndex(p) ==
    /\ procs[p].pc = "write"
    /\ indexFile' = WriteAt0(indexFile, MarshalIndex(procs[p].indexData[1]), 0)
    /\ last' = Ran(procs[p].op, 0, "done", procs[p].chanId, procs[p].versionId,
                   procs[p].urlBase, procs[p].dir,
                   [NoLists EXCEPT !.saved = procs[p].indexData])
    /\ procs' = [procs EXCEPT ![p] = Returns(@, 0)]
    /\ UNCHANGED <<repoDir, manifests, storage, ops, naming>>

NextConc ==
    \E p \in Procs :
        \/ BeginUpdate(p)
        \/ HashAndDiff(p)
        \/ CopyAndWriteVersion(p)
        \/ BeginMkChan(p)
        \/ BeginSetChan(p)
        \/ OpenIndexFile(p)
        \/ WriteIndex(p)

SpecConc == InitConc /\ [][NextConc]_vars

(***************************************************************************)
(* The naming of one file that matches no stored hash, one os.Stat at a    *)
(* time.  naming holds the local variables of the loop: storageNameBase,   *)
(* prefixSize, prefixNum and storageName, the place in the loop (pc: stat, *)
(* the os.Stat of the loop condition; body; done), what the last os.Stat   *)
(* returned (err) and the number of calls of os.Stat (stats).  statFails   *)
(* says that os.Stat in this storage directory fails with an error that is *)
(* not "does not exist": the directory may not be searched, or the name is *)
(* longer than the file system takes.                                      *)
(***************************************************************************)
\* the files that are named
NamingFiles ==
    {[Path |-> <<"d", "/", "x">>, MD5 |-> MD5(<<1, 2>>)],
     [Path |-> <<"y">>, MD5 |-> MD5(<<2>>)]}

\* the k-th name a file with hash h and base name b may get: the prefixes
\* of h from four characters to all of them, then all of h with 0, 1, ...
NthName(h, b, k) ==
    IF k <= HashLen - PrefixStart + 1
    THEN SubSeq(h, 1, PrefixStart + k - 1) \o <<"-">> \o b
    ELSE h \o <<"-">> \o Itoa(k - (HashLen - PrefixStart + 2)) \o <<"-">> \o b

\* the storage directories: the first n names of the file, one of them
\* (hole) missing or none (0), each a blob of another hash
TakenNames(f, n, hole) ==
    {NthName(f.MD5, Base(f.Path), k) : k \in (1..n) \ {hole}}

\* the calls of os.Stat are counted up to this number
MaxStats == HashLen + MaxTaken + 2

\* storageNameBase := filepath.Base(nvMD5Data.Path); prefixSize := 4;
\* prefixNum := -1; storageName := fmt.Sprintf("%s-%s", prefix, storageNameBase)
InitNames ==
    /\ repoDir = TRUE
    /\ indexFile = MarshalIndex(NewBlankIndex)
    /\ manifests = NoManifests
    /\ ops = 0
    /\ procs = [p \in Procs |-> NotStarted]
    /\ \E f \in NamingFiles, n \in 0..MaxTaken, statFails \in BOOLEAN :
          \E hole \in 0..n :
             /\ storage = [name \in TakenNames(f, n, hole) |-> <<3>>]
             /\ naming = [pc |-> "stat", nvMD5Data |-> f, storageNameBase |-> Base(f.Path),
                          prefixSize |-> PrefixStart, prefixNum |-> -1,
                          storageName |-> FormatName(f.MD5, PrefixStart, -1, Base(f.Path)),
                          stats |-> 0, statFails |-> statFails, err |-> "nil"]
    /\ last = Ran("none", 0, "done", "", -1, <<>>, EmptyDir, NoLists)

\* os.Stat(path.Join(filesDir, storageName))
Stat(name) ==
    IF naming.statFails THEN "other"
    ELSE IF name \in DOMAIN storage THEN "nil" ELSE "notexist"

\* the loop body with the numbers starting at 1
AdvanceFromOne(prefixSize, prefixNum) ==
    IF prefixSize < HashLen
    THEN [prefixSize |-> prefixSize + 1, prefixNum |-> prefixNum]
    ELSE [prefixSize |-> prefixSize, prefixNum |-> IF prefixNum < 0 THEN 1 ELSE prefixNum + 1]

\* if prefixSize < 32 { prefixSize++ } else { prefixNum++ }
Advance(prefixSize, prefixNum) ==
    IF prefixSize < HashLen
    THEN [prefixSize |-> prefixSize + 1, prefixNum |-> prefixNum]
    ELSE [prefixSize |-> prefixSize, prefixNum |-> prefixNum + 1]

\* the loop condition: _, err := os.Stat(...); !os.IsNotExist(err)
StatName ==
    /\ naming.pc = "stat"
    /\ naming.stats < MaxStats
    /\ naming' = [naming EXCEPT !.err = Stat(naming.storageName),
                                !.stats = @ + 1,
                                !.pc = IF Stat(naming.storageName) # "notexist"
                                       THEN "body" ELSE "done"]
    /\ UNCHANGED <<repoDir, indexFile, manifests, storage, last, ops, procs>>

\* the loop body: the next prefix size or number, and the name made of it
NextName ==
    /\ naming.pc = "body"
    /\ \E a \in {Advance(naming.prefixSize, naming.prefixNum)} :
          naming' = [naming EXCEPT !.prefixSize = a.prefixSize,
                                   !.prefixNum = a.prefixNum,
                                   !.storageName = FormatName(naming.nvMD5Data.MD5, a.prefixSize,
                                                              a.prefixNum, naming.storageNameBase),
                                   !.pc = "stat"]
    /\ UNCHANGED <<repoDir, indexFile, manifests, storage, last, ops, procs>>

NextNames == StatName \/ NextName

SpecNames == InitNames /\ [][NextNames]_vars

(***************************************************************************)
(* What the properties speak of.                                           *)
(***************************************************************************)
\* the last command was an update that got as far as the content diff
Published == last.op = "update" /\ last.step \notin EarlySteps

\* the steps of UpdateRepo that come before the index file is opened for writing
StepsBeforeIndexWrite == EarlySteps \cup {"create_blob", "read_src", "create_manifest"}

\* the file entries of a manifest file
FilesOf(m) == {m[k] : k \in {k \in 1..Len(m) : m[k].t = "file"}}

\* the storage name a file entry refers to: what follows the last "/" of its URL
NameOf(e) == Base(e.Sources[1].Url)

\* the version summaries of an index file
SummariesOf(f) == {f[k] : k \in {k \in 1..Len(f) : f[k].t = "ver"}}

\* the hashes of the blobs of a storage directory
HashesOf(st) == {MD5(st[n]) : n \in DOMAIN st}

\* the first candidate storage name of an incoming file
FirstCandidate(e) == SubSeq(e.MD5, 1, 4) \o <<"-">> \o Base(e.InstallPath)

(***************************************************************************)
(* C1: an update that fails before the index write - at the validation of  *)
(* the directories, the read or parse of the index, the hashing, the       *)
(* creation of a blob, the read of a source file or the creation of the    *)
(* manifest file - leaves the content of the index file as it was.         *)
(***************************************************************************)
C1_FailedPublishKeepsIndex ==
    (last.op = "update" /\ last.code # 0 /\ last.step \in StepsBeforeIndexWrite)
        => indexFile = last.indexBefore

\* an update that added blobs and then could not create its manifest file
C1_Witness ==
    /\ last.op = "update" /\ last.code = 45 /\ last.step = "create_manifest"
    /\ storage # last.storageBefore
    /\ IndexParses(indexFile)
    /\ indexFile = last.indexBefore

(***************************************************************************)
(* C2: in every state reached by create, update, mkchan and setchan run    *)
(* one after the other on a new repository, every version summary of the   *)
(* index file has its manifest file on disk.                               *)
(***************************************************************************)
C2_SummaryHasManifest ==
    \A v \in SummariesOf(indexFile) : v.Id \in DOMAIN manifests

\* a channel command has rewritten an index that lists a version
C2_Witness ==
    /\ last.op \in {"mkchan", "setchan"} /\ last.code = 0
    /\ IndexParses(indexFile)
    /\ SummariesOf(indexFile) # {}
    /\ indexFile # last.indexBefore

(***************************************************************************)
(* C3: an update with a version ID whose manifest file exists fails, with  *)
(* the version-already-exists code 44 when it gets to the creation of the  *)
(* manifest file, and leaves the manifest files and the index file as      *)
(* they were.                                                              *)
(***************************************************************************)
C3_ExistingVersionRefused ==
    (last.op = "update" /\ last.versionId \in DOMAIN last.manifestsBefore)
        => /\ last.code # 0
           /\ manifests = last.manifestsBefore
           /\ indexFile = last.indexBefore
           /\ last.step \notin (EarlySteps \cup {"create_blob", "read_src"})
                => (last.step = "create_manifest" /\ last.code = 44)

\* a second update of a version ID, with other files, that added its blobs
C3_Witness ==
    /\ last.op = "update" /\ last.code = 44
    /\ last.versionId \in DOMAIN last.manifestsBefore
    /\ storage # last.storageBefore
    /\ FilesOf(manifests[last.versionId]) # {}

(***************************************************************************)
(* C4: any two file entries of the manifests, of one version or of two,    *)
(* that have the same content hash refer to the same storage name.         *)
(***************************************************************************)
C4_SameHashSameName ==
    \A i \in DOMAIN manifests, j \in DOMAIN manifests :
        \A a \in FilesOf(manifests[i]), b \in FilesOf(manifests[j]) :
            a.MD5 = b.MD5 => NameOf(a) = NameOf(b)

(***************************************************************************)
(* C5: an update of the directory that another version was published       *)
(* from maps every file to the storage name it has in that version's       *)
(* manifest and adds no blob to the storage directory.                     *)
(***************************************************************************)
SameTree(m, n) ==
    /\ m # <<>> /\ n # <<>>
    /\ {<<e.Path, e.MD5>> : e \in FilesOf(m)} = {<<e.Path, e.MD5>> : e \in FilesOf(n)}

C5_RepublishSameNames ==
    (last.op = "update" /\ last.code = 0)
        => \A j \in DOMAIN last.manifestsBefore :
              SameTree(manifests[j], manifests[last.versionId])
                => /\ \A a \in FilesOf(manifests[j]), b \in FilesOf(manifests[last.versionId]) :
                        a.Path = b.Path => NameOf(a) = NameOf(b)
                   /\ Cardinality(DOMAIN storage) = Cardinality(DOMAIN last.storageBefore)

(***************************************************************************)
(* C6: the incoming files of an update that match no stored hash and have  *)
(* the same first candidate name get pairwise distinct storage names.      *)
(***************************************************************************)
C6_CollidingFilesDistinctNames ==
    Published
        => \A i \in 1..Len(last.addToStorage), j \in 1..Len(last.addToStorage) :
              (i # j /\ FirstCandidate(last.addToStorage[i]) = FirstCandidate(last.addToStorage[j]))
                => last.addToStorage[i].FileStoragePath # last.addToStorage[j].FileStoragePath

(***************************************************************************)
(* C7: an incoming file whose hash is the hash of a blob that is in        *)
(* storage when the update starts is mapped to the name of such a blob     *)
(* and is not on the add-to-storage list; an update all of whose incoming  *)
(* files have stored hashes leaves the storage directory as it was.        *)
(***************************************************************************)
C7_StoredHashIsReused ==
    Published
        => /\ \A n \in 1..Len(last.nvMD5s) :
                last.nvMD5s[n].MD5 \in HashesOf(last.storageBefore)
                  => /\ \E k \in 1..Len(last.fileStorageMap) :
                          /\ last.fileStorageMap[k].InstallPath = last.nvMD5s[n].Path
                          /\ last.fileStorageMap[k].FileStoragePath \in DOMAIN last.storageBefore
                          /\ MD5(last.storageBefore[last.fileStorageMap[k].FileStoragePath])
                               = last.nvMD5s[n].MD5
                     /\ \A k \in 1..Len(last.addToStorage) :
                          last.addToStorage[k].InstallPath # last.nvMD5s[n].Path
           /\ (\A n \in 1..Len(last.nvMD5s) :
                 last.nvMD5s[n].MD5 \in HashesOf(last.storageBefore))
                => storage = last.storageBefore

\* an update with one file that was stored and one that was not
C7_Witness ==
    /\ Published /\ last.code = 0
    /\ \E n \in 1..Len(last.nvMD5s) : last.nvMD5s[n].MD5 \in HashesOf(last.storageBefore)
    /\ \E n \in 1..Len(last.nvMD5s) : last.nvMD5s[n].MD5 \notin HashesOf(last.storageBefore)
    /\ Cardinality(DOMAIN storage) = Cardinality(DOMAIN last.storageBefore) + 1

(***************************************************************************)
(* C8: no command removes a blob of the storage directory or changes its   *)
(* content, and an update that is to create a blob under a name that       *)
(* exists by then fails.                                                    *)
(***************************************************************************)
C8_BlobsAreKept ==
    /\ \A n \in DOMAIN last.storageBefore :
          n \in DOMAIN storage /\ storage[n] = last.storageBefore[n]
    /\ (Published /\ \E i \in 1..Len(last.addToStorage), j \in 1..Len(last.addToStorage) :
            i < j /\ last.addToStorage[i].FileStoragePath = last.addToStorage[j].FileStoragePath)
          => last.code # 0

\* an update stopped by the exclusive creation of a blob whose name exists
C8_Witness ==
    /\ Published /\ last.code = 42 /\ last.step = "create_blob"
    /\ Len(last.addToStorage) = 2
    /\ last.addToStorage[1].FileStoragePath = last.addToStorage[2].FileStoragePath
    /\ last.addToStorage[1].FileStoragePath \in DOMAIN storage
    /\ storage[last.addToStorage[1].FileStoragePath] = last.dir[last.addToStorage[1].InstallPath]
    /\ last.storageBefore # EmptyDir

(***************************************************************************)
(* C9: after an update that returns success, every file entry of the       *)
(* manifest it wrote refers to a blob of the storage directory whose       *)
(* content is the content of the incoming file, and whose hash is the      *)
(* content hash of the entry.                                              *)
(***************************************************************************)
C9_ManifestBlobsAreWhole ==
    (last.op = "update" /\ last.code = 0)
        => \A e \in FilesOf(manifests[last.versionId]) :
              /\ NameOf(e) \in DOMAIN storage
              /\ storage[NameOf(e)] = last.dir[e.Path]
              /\ MD5(storage[NameOf(e)]) = e.MD5

(***************************************************************************)
(* C10: every file entry of the manifest an update wrote has exactly one   *)
(* source, of type http, whose URL is the URL base, with a "/" appended    *)
(* unless it ends with one, followed by the storage name of the file.      *)
(***************************************************************************)
C10_OneHttpSource ==
    (last.op = "update" /\ last.step \in {"open_index", "done"})
        => LET m == manifests[last.versionId]
               base == IF last.urlBase # <<>> /\ last.urlBase[Len(last.urlBase)] = "/"
                       THEN last.urlBase ELSE last.urlBase \o <<"/">>
           IN  \A j \in 1..Len(m) :
                  m[j].t = "file"
                    => /\ j - 1 \in 1..Len(last.fileStorageMap)
                       /\ m[j].Path = last.fileStorageMap[j - 1].InstallPath
                       /\ Len(m[j].Sources) = 1
                       /\ m[j].Sources[1].SourceType = "http"
                       /\ m[j].Sources[1].Url
                            = base \o last.fileStorageMap[j - 1].FileStoragePath

\* a manifest with two entries written with a URL base that ends with "/"
C10_Witness ==
    /\ last.op = "update" /\ last.code = 0
    /\ last.urlBase = <<"u", "/">>
    /\ Cardinality(FilesOf(manifests[last.versionId])) = 2

\* a manifest written with a URL base that does not end with "/"
C10_WitnessAppended ==
    /\ last.op = "update" /\ last.code = 0
    /\ last.urlBase = <<"u">>
    /\ FilesOf(manifests[last.versionId]) # {}

(***************************************************************************)
(* What the properties about the index speak of.                           *)
(***************************************************************************)
\* the channel records of an index file, in the order of the file
ChannelsOf(f) == SelectSeq(f, LAMBDA tok : tok.t = "chan")

\* the last command read and parsed the index file
Loaded == last.op \in {"update", "mkchan", "setchan"}
              /\ last.step \notin {"stat_repo", "stat_files", "read_index", "parse_index"}

\* a channel with the ID the last command was given was in the index it read
ChanWasThere ==
    \E i \in 1..Len(ChannelsOf(last.indexBefore)) :
        ChannelsOf(last.indexBefore)[i].Id = last.chanId

(***************************************************************************)
(* C11: the file entries of the manifest an update wrote are in the order  *)
(* of the hashed new-version sequence: of any two incoming files, stored   *)
(* before or newly added, the one that is first in the sequence is first   *)
(* in the manifest.                                                        *)
(***************************************************************************)
C11_ManifestKeepsInputOrder ==
    (last.op = "update" /\ last.code = 0)
        => LET m == manifests[last.versionId]
               pos(p) == CHOOSE n \in 1..Len(last.nvMD5s) : last.nvMD5s[n].Path = p
           IN  \A k \in 2..(Len(m) - 1), l \in 2..(Len(m) - 1) :
                  k < l => pos(m[k].Path) < pos(m[l].Path)

(***************************************************************************)
(* C12: after a setchan with a negative version ID that returned success,  *)
(* the index file has no channel with the given ID, whether or not it had  *)
(* one before.                                                             *)
(***************************************************************************)
C12_NegativeSetRemoves ==
    (last.op = "setchan" /\ last.code = 0 /\ last.versionId < 0)
        => \A i \in 1..Len(ChannelsOf(indexFile)) :
              ChannelsOf(indexFile)[i].Id # last.chanId

(***************************************************************************)
(* C13: after a setchan with a non-negative version ID of a channel that   *)
(* was in the index, which returned success, the index file loads as the   *)
(* index that was there with only that channel's current version changed:  *)
(* its ID and name, the other channels, the order of the channels and the  *)
(* version summaries are as they were.                                     *)
(***************************************************************************)
C13_SetChangesOnlyCurrentVersion ==
    (last.op = "setchan" /\ last.code = 0 /\ last.versionId >= 0 /\ ChanWasThere)
        => /\ IndexParses(indexFile)
           /\ LET old == UnmarshalIndex(last.indexBefore)
                  new == UnmarshalIndex(indexFile)
              IN  /\ new.Versions = old.Versions
                  /\ Len(new.Channels) = Len(old.Channels)
                  /\ \A i \in 1..Len(old.Channels) :
                        IF old.Channels[i].Id = last.chanId
                        THEN /\ new.Channels[i].Id = old.Channels[i].Id
                             /\ new.Channels[i].Name = old.Channels[i].Name
                             /\ new.Channels[i].CurrentVersion = last.versionId
                        ELSE new.Channels[i] = old.Channels[i]

(***************************************************************************)
(* C14: in every state reached by create, mkchan, setchan and update run   *)
(* one after the other on a new repository, no two channels of the index   *)
(* file have the same ID.                                                  *)
(***************************************************************************)
C14_OneChannelPerId ==
    \A i \in 1..Len(ChannelsOf(indexFile)), j \in 1..Len(ChannelsOf(indexFile)) :
        i # j => ChannelsOf(indexFile)[i].Id # ChannelsOf(indexFile)[j].Id

\* a setchan of a channel that was in the index has written the index
C14_Witness ==
    /\ last.op = "setchan" /\ last.code = 0 /\ last.versionId >= 0
    /\ ChanWasThere
    /\ indexFile # last.indexBefore
    /\ \E i \in 1..Len(ChannelsOf(indexFile)) :
          /\ ChannelsOf(indexFile)[i].Id = last.chanId
          /\ ChannelsOf(indexFile)[i].CurrentVersion = last.versionId

(***************************************************************************)
(* C15: the channel a successful mkchan appended has no pinned version:    *)
(* its current version is negative (or absent), so that it differs from a  *)
(* channel that setchan pinned to version 0.                               *)
(***************************************************************************)
C15_NewChannelIsUnpinned ==
    (last.op = "mkchan" /\ last.code = 0)
        => \A i \in 1..Len(ChannelsOf(indexFile)) :
              ChannelsOf(indexFile)[i].Id = last.chanId
                => ChannelsOf(indexFile)[i].CurrentVersion < 0

(***************************************************************************)
(* C16: a mkchan of a channel ID that is in the index fails with the       *)
(* already-exists code 42 and leaves the index file as it was; a mkchan of *)
(* an ID that is not, which returns success, leaves an index file that     *)
(* loads as the index that was there with one channel appended, whose ID   *)
(* and name are the given ID.                                              *)
(***************************************************************************)
C16_CreateChanAppendsOrRefuses ==
    (last.op = "mkchan" /\ Loaded)
        => IF ChanWasThere
           THEN last.code = 42 /\ indexFile = last.indexBefore
           ELSE last.code = 0
                  => /\ IndexParses(indexFile)
                     /\ LET old == UnmarshalIndex(last.indexBefore)
                            new == UnmarshalIndex(indexFile)
                        IN  /\ new.Versions = old.Versions
                            /\ Len(new.Channels) = Len(old.Channels) + 1
                            /\ SubSeq(new.Channels, 1, Len(old.Channels)) = old.Channels
                            /\ new.Channels[Len(new.Channels)].Id = last.chanId
                            /\ new.Channels[Len(new.Channels)].Name = last.chanId

(***************************************************************************)
(* C19: after an update, mkchan or setchan that returned success, the      *)
(* index file parses and loads as exactly the index the command saved;     *)
(* nothing of the file that was there remains.                             *)
(***************************************************************************)
C19_SavedIndexLoadsBack ==
    (last.op \in {"update", "mkchan", "setchan"} /\ last.code = 0)
        => /\ Len(last.saved) = 1
           /\ IndexParses(indexFile)
           /\ UnmarshalIndex(indexFile) = last.saved[1]

(***************************************************************************)
(* C20: an update, mkchan or setchan that returns success has written the  *)
(* whole of the new index to the index file: a failure to open the file    *)
(* or to write its content makes the command return an error.              *)
(***************************************************************************)
C20_SuccessMeansIndexWritten ==
    (last.op \in {"update", "mkchan", "setchan"} /\ last.code = 0)
        => \E idx \in {last.saved[k] : k \in 1..Len(last.saved)} :
              indexFile = MarshalIndex(idx)

(***************************************************************************)
(* What the properties about two commands at once speak of.                *)
(***************************************************************************)
\* both commands have returned
BothDone == \A p \in Procs : procs[p].pc = "done"

\* both commands were updates that returned success
BothPublished == BothDone /\ \A p \in Procs : procs[p].op = "update" /\ procs[p].code = 0

\* the version summary an update appends to the index
SummaryOf(pr) == VerTok([Id |-> pr.versionId, Name |-> VersionName(pr.versionId)])

(***************************************************************************)
(* C17: two updates with different version IDs that run at once can both   *)
(* return success and both create their version files while the index      *)
(* file ends with the summary of one of them only.  Whenever both have     *)
(* returned success, both version files are on disk, and the summary of    *)
(* an update is in the index file exactly if its write of the index ran    *)
(* last or the other update read the index file after that write: the      *)
(* update that is written over is lost.                                    *)
(***************************************************************************)
C17_LastWriteWins ==
    BothPublished
        => /\ \A p \in Procs : procs[p].versionId \in DOMAIN manifests
           /\ \A p \in Procs, q \in Procs :
                 p # q => (SummaryOf(procs[p]) \in SummariesOf(indexFile)
                             <=> \/ last.versionId = procs[p].versionId
                                 \/ SummaryOf(procs[p]) \in SummariesOf(procs[q].read))

\* both updates returned success and a version file has no summary in the index
C17_Witness ==
    /\ BothPublished
    /\ procs[1].versionId # procs[2].versionId
    /\ \A p \in Procs : procs[p].versionId \in DOMAIN manifests
    /\ IndexParses(indexFile)
    /\ Cardinality(SummariesOf(indexFile)) = 1
    /\ \E p \in Procs : SummaryOf(procs[p]) \notin SummariesOf(indexFile)

(***************************************************************************)
(* C18: once two commands that ran at once have both returned, the index   *)
(* file is exactly the index saved by the command whose write ran last: it *)
(* parses, and nothing of the other command's write is in it.              *)
(***************************************************************************)
C18_LastSaveIsTheFile ==
    (BothDone /\ last.op # "none")
        => /\ IndexParses(indexFile)
           /\ indexFile = MarshalIndex(last.saved[1])

(***************************************************************************)
(* What the properties about failures and orphans speak of.                *)
(***************************************************************************)
\* the version IDs of the summaries of an index file
IdsOf(f) == {v.Id : v \in SummariesOf(f)}

\* the version summaries of an index file, in the order of the file
SummarySeq(f) == SelectSeq(f, LAMBDA tok : tok.t = "ver")

\* the version IDs that have a manifest file and no summary in the index file
Orphans(mf, f) == {id \in DOMAIN mf : id \notin IdsOf(f)}

\* the last command returned an error
Failed(l) == l.op # "none" /\ l.code # 0

\* two files of the add-to-storage list were given one storage name, so
\* that the exclusive creation of the second finds the first
NameTakenTwice(l) ==
    \E i \in 1..Len(l.addToStorage), j \in 1..Len(l.addToStorage) :
        i # j /\ l.addToStorage[i].FileStoragePath = l.addToStorage[j].FileStoragePath

\* the class of failure the last command stopped with, after the message
\* it prints: what was missing, malformed or there already, or a failure
\* of input and output (permission denied, unknown errors); "other" for
\* the missing parent directory of create, which is none of these
FailureClass(l) ==
    IF l.op = "create"
    THEN IF l.step = "mkdir" /\ l.code = 11 THEN "already exists"
         ELSE IF l.step = "mkdir" /\ l.code = 12 THEN "other"
         ELSE "io"
    ELSE IF l.step = "stat_repo" /\ l.code = 10 THEN "repository missing"
    ELSE IF l.step = "stat_files" /\ l.code = 11 THEN "storage missing"
    ELSE IF l.step = "read_index" /\ l.code = 13 THEN "repository malformed"
    ELSE IF l.step = "parse_index" THEN "repository malformed"
    ELSE IF l.step = "hash_nv" /\ l.nvMissing THEN "source missing"
    ELSE IF l.step = "create_manifest" /\ l.code = 44 THEN "already exists"
    ELSE IF l.step = "chan_exists" THEN "already exists"
    ELSE IF l.step = "create_blob" /\ NameTakenTwice(l) THEN "already exists"
    ELSE "io"

(***************************************************************************)
(* C21: an update whose new version directory does not exist, the          *)
(* repository and the storage directory being valid, fails with the code   *)
(* of an invalid new version directory, 12, and creates or changes no      *)
(* blob, manifest file or index file.                                      *)
(***************************************************************************)
C21_MissingSourceIsReported ==
    (last.op = "update" /\ last.nvMissing)
        => /\ last.code = 12
           /\ storage = last.storageBefore
           /\ manifests = last.manifestsBefore
           /\ indexFile = last.indexBefore

(***************************************************************************)
(* C22: the exit codes tell the classes of failure apart: two commands     *)
(* that fail one after the other with the same exit code, each in one of   *)
(* the classes repository missing, repository malformed, storage missing,  *)
(* source missing, input and output, already exists, failed in the same    *)
(* class.                                                                  *)
(***************************************************************************)
C22_CodesTellClasses ==
    [][(/\ Failed(last) /\ Failed(last') /\ last.code = last'.code
        /\ FailureClass(last) # "other" /\ FailureClass(last') # "other")
          => FailureClass(last) = FailureClass(last')]_vars

(***************************************************************************)
(* C23: a manifest file whose version ID has no summary in the index file  *)
(* comes only from an update that created the manifest file and whose      *)
(* write of the index file failed: no other command adds to the version    *)
(* IDs that have a manifest file and no summary, so that they are none     *)
(* as long as every index write succeeds.                                  *)
(***************************************************************************)
C23_OrphanOnlyByFailedIndexWrite ==
    (Orphans(manifests, indexFile) \ Orphans(last.manifestsBefore, last.indexBefore))
        \subseteq (IF last.op = "update" /\ (last.step = "open_index" \/ last.cut)
                   THEN {last.versionId} ELSE {})

(***************************************************************************)
(* C26: the manifest of an update that returned success has exactly one    *)
(* file entry for each incoming file, with its install path and content    *)
(* hash, and no other entry, whatever the storage directory and the        *)
(* incoming tree hold (nothing, too).                                      *)
(***************************************************************************)
C26_OneEntryPerIncomingFile ==
    (last.op = "update" /\ last.code = 0)
        => LET entries == SelectSeq(manifests[last.versionId], LAMBDA tok : tok.t = "file")
           IN  /\ Len(entries) = Len(last.nvMD5s)
               /\ \A n \in 1..Len(last.nvMD5s) :
                     \E k \in 1..Len(entries) :
                        /\ entries[k].Path = last.nvMD5s[n].Path
                        /\ entries[k].MD5 = last.nvMD5s[n].MD5
                        /\ \A j \in 1..Len(entries) :
                              entries[j].Path = last.nvMD5s[n].Path => j = k

(***************************************************************************)
(* C27: in every state reached by the commands run one after the other on  *)
(* a new repository, the version IDs of the summaries of the index file    *)
(* are pairwise distinct, and a version ID that had a manifest file and no *)
(* summary before a command has no summary after it.                       *)
(***************************************************************************)
C27_VersionIdsDistinct ==
    /\ \A i \in 1..Len(SummarySeq(indexFile)), j \in 1..Len(SummarySeq(indexFile)) :
          i # j => SummarySeq(indexFile)[i].Id # SummarySeq(indexFile)[j].Id
    /\ \A id \in Orphans(last.manifestsBefore, last.indexBefore) : id \notin IdsOf(indexFile)

\* an update of a version ID whose manifest file had no summary was refused
C27_Witness ==
    /\ last.op = "update" /\ last.code = 44
    /\ IndexParses(last.indexBefore)
    /\ last.versionId \in Orphans(last.manifestsBefore, last.indexBefore)
    /\ last.versionId \notin IdsOf(indexFile)

(***************************************************************************)
(* C28: when every write of the index file succeeds, in every state        *)
(* reached by create, mkchan, setchan and update run one after the other,  *)
(* the index file of the repository parses and is the index saved last:    *)
(* the index the last command handed to the write if it saved one (for     *)
(* update and mkchan, which do not truncate, of a length not below that    *)
(* of the file they read), the blank index after create, and the file as   *)
(* it was before a command that saved none.                                *)
(***************************************************************************)
C28_IndexIsLastSaved ==
    repoDir
        => /\ IndexParses(indexFile)
           /\ last.saved # <<>>
                => /\ UnmarshalIndex(indexFile) = last.saved[1]
                   /\ indexFile = MarshalIndex(last.saved[1])
                   /\ last.op \in {"update", "mkchan"}
                        => Len(MarshalIndex(last.saved[1])) >= Len(last.indexBefore)
           /\ (last.saved = <<>> /\ last.op = "create" /\ last.code = 0)
                => indexFile = MarshalIndex(NewBlankIndex)
           /\ (last.saved = <<>> /\ ~(last.op = "create" /\ last.code = 0))
                => indexFile = last.indexBefore

\* setchan removed a channel and left the index file shorter than it was
C28_Witness ==
    /\ last.op = "setchan" /\ last.code = 0 /\ ~last.cut
    /\ last.saved # <<>>
    /\ Len(indexFile) < Len(last.indexBefore)
    /\ IndexParses(last.indexBefore)

(***************************************************************************)
(* What the properties about the naming speak of.                          *)
(***************************************************************************)
\* the numbers k of the names of the file being named that exist
ExistingNames ==
    {k \in 1..(HashLen + MaxTaken) :
        NthName(naming.nvMD5Data.MD5, naming.storageNameBase, k) \in DOMAIN storage}

\* the first of the names of the file being named that does not exist
FirstFreeName ==
    NthName(naming.nvMD5Data.MD5, naming.storageNameBase,
            CHOOSE k \in 1..(HashLen + MaxTaken) :
                k \notin ExistingNames /\ \A j \in 1..(k - 1) : j \in ExistingNames)

(***************************************************************************)
(* C24: the storage name chosen for a file with hash h and base name b     *)
(* that matches no stored hash is the first name that does not exist in    *)
(* the storage directory of h[:4]-b, h[:5]-b, ..., h[:32]-b, h-0-b, h-1-b, *)
(* and so on.                                                              *)
(***************************************************************************)
C24_FirstFreeNameIsChosen ==
    (naming.pc = "done" /\ naming.nvMD5Data.MD5 \notin HashesOf(storage))
        => naming.storageName = FirstFreeName

\* all prefixes and the name with 0 exist: the name with 1 was chosen
C24_Witness ==
    /\ naming.pc = "done"
    /\ naming.prefixNum = 1
    /\ naming.storageName \notin DOMAIN storage
    /\ Cardinality(ExistingNames) = HashLen - PrefixStart + 2

(***************************************************************************)
(* C25: the loop that looks for a storage name ends in every state of the  *)
(* storage directory, after at most hash length + N calls of os.Stat, N    *)
(* the number of names of the file that exist in the storage directory.    *)
(***************************************************************************)
C25_ProbesAreBounded ==
    naming.pc # "none" => naming.stats <= HashLen + Cardinality(ExistingNames)

====
